---- MODULE Spec2Model ----
(***************************************************************************)
(* pi-fleet: the heartbeat store (src/heartbeat.ts), the heartbeat         *)
(* lifecycle of one pi process (index.ts: src/unnamed/part_003) and the    *)
(* fleet discovery (discovery.ts: src/unnamed/part_000).                   *)
(*                                                                         *)
(* Every pi process is single-threaded: its handlers and its scans run to  *)
(* completion one after the other, but the file-system calls of different  *)
(* processes interleave.  One action of the model is one file-system call  *)
(* (or one probe) of one process together with the process-local code      *)
(* around it.                                                              *)
(***************************************************************************)
EXTENDS Integers, Sequences, FiniteSets, TLC

\* ---------------------------------------------------------------- bounds
MaxTurns == 1
MaxTimers == 2
MaxPathLen == 3
MaxEntries == 2
MaxRemovals == 2

\* In the store specifications process 1 only runs the heartbeat lifecycle,
\* process 3 only the dashboard (discoverFleet -> readAllHeartbeats) and
\* process 2 both; the /fleet commands are run by processes 1 and 3.  Only
\* process 1 may run under another user id (a pi started with sudo).
Pids == {1, 2, 3}
Agents == {1, 2}
Scanners == {2, 3}
MayBeForeign == {1}
\* Process 3 may find FLEET_DIR owned by another user (created first by a pi
\* started with sudo): its unlinkSync there fails with EACCES.
MayBeDenied == {3}
Tools == {"edit"}
Models == {"m1"}

\* ------------------------------------------------------------- constants
\* An optional value is a sequence of length 0 or 1.
None == <<>>
Some(x) == <<x>>

Null == "null"          \* JavaScript null inside a record
Absent == None          \* no directory entry under that name
ENOENT == None          \* readFileSync threw: no such file
ParseError == None      \* JSON.parse threw
Empty == <<>>           \* the text of a file of length 0

\* ------------------------------------------------------------ the record
\* interface Heartbeat, restricted to the fields the handlers mutate plus
\* the two keys (pid, cwd); the remaining fields are written once by
\* initHeartbeat and never read by the store.
FieldOrder ==
    <<"pid", "cwd", "model", "status", "currentTool", "lastUserMessage",
      "lastAssistantSnippet", "turns">>

\* A string is the sequence of its characters.  The two excerpts are null
\* (None) or a string (Some).
ExcerptCap == 200
Repeat(c, n) == [i \in 1..n |-> c]
Strs ==
    {<<>>, <<"a">>, <<"b">>, <<"a", " ", "b">>, Repeat("b", ExcerptCap),
     Repeat("b", ExcerptCap + 1)}

\* An absolute path is the sequence of its characters.  The repository has
\* its main worktree at /r and linked worktrees at /r/w and /r-w.
MainPath == <<"/", "r">>
LinkedA == <<"/", "r", "/", "w">>
LinkedB == <<"/", "r", "-", "w">>
WorktreePaths == {MainPath, LinkedA, LinkedB}

\* ctx.cwd of each process: process 1 runs in the main worktree, processes
\* 2 and 3 both in /r/w.
CwdOf(p) == IF p = 1 THEN MainPath ELSE LinkedA

Heartbeat ==
    [pid: Pids, cwd: {CwdOf(p) : p \in Pids}, model: Models \cup {Null},
     status: {"idle", "streaming", "tool_running"},
     currentTool: Tools \cup {Null},
     lastUserMessage: {None} \cup {Some(t) : t \in Strs},
     lastAssistantSnippet: {None} \cup {Some(t) : t \in Strs},
     turns: 0..(MaxTurns + 1)]

\* JSON.stringify(data, null, 2): an opening brace, one "key": value member
\* per field in declaration order, a closing brace.
RECURSIVE Members(_, _)
Members(data, keys) ==
    IF keys = <<>> THEN <<>>
    ELSE <<<<Head(keys), data[Head(keys)]>>>> \o Members(data, Tail(keys))

Stringify(data) == <<<<"{">>>> \o Members(data, FieldOrder) \o <<<<"}">>>>

\* JSON.parse(raw): succeeds exactly on a complete object text; the result
\* has the members the text lists (a later duplicate key wins).
\* A text is a sequence of tokens: <<"{">>, <<"}">> or <<key, value>>.
IsMember(tok) == Len(tok) = 2

WellFormed(text) ==
    /\ Len(text) >= 2
    /\ text[1] = <<"{">>
    /\ text[Len(text)] = <<"}">>
    /\ \A i \in 2..(Len(text) - 1) : IsMember(text[i])

\* The object a well-formed text denotes.
ObjectOf(text) ==
    LET idx == 2..(Len(text) - 1)
        keys == {text[i][1] : i \in idx}
        lastOf(k) == CHOOSE i \in idx :
                         /\ text[i][1] = k
                         /\ \A j \in idx : text[j][1] = k => j <= i
    IN [k \in keys |-> text[lastOf(k)][2]]

\* Variant: an empty text is read as the empty object, JSON.parse(raw || "{}").
ParseOrEmptyObject(text) ==
    IF text = Empty THEN Some(<<>>)
    ELSE IF ~WellFormed(text) THEN ParseError
    ELSE Some(ObjectOf(text))

\* The text null is JSON too: JSON.parse returns null for it.
NullText == <<<<"null">>>>
JsNull == [null |-> TRUE]

Parse(text) ==
    IF text = NullText THEN Some(JsNull)
    ELSE IF ~WellFormed(text) THEN ParseError
    ELSE Some(ObjectOf(text))

\* ------------------------------------------------------------- the state
\* The store holds only names of the form <pid>.json: the loop of
\* readAllHeartbeats skips every other name without touching it.  FLEET_DIR
\* itself exists (ensureFleetDir creates it before every access).
VARIABLES
    files,      \* FLEET_DIR: pid |-> content of <pid>.json, or Absent
    proc,       \* pid |-> "alive" | "dead" (what the OS knows)
    foreign,    \* pid |-> TRUE when the process runs under another user id
    hb,         \* pid |-> module variable hb (Heartbeat | null)
    handle,     \* pid |-> module variable heartbeatInterval is set
    timers,     \* pid |-> number of intervals created and not cleared
    pc,         \* pid |-> position of the process in its current handler
    todo,       \* pid |-> names of the listing not yet visited by the scan
    cur,        \* pid |-> name the scan is visiting
    raw,        \* pid |-> what readFileSync returned for cur
    result,     \* pid |-> the array heartbeats of the scan
    thrown,     \* pid |-> an exception escaped a handler or a scan
    lastPub,    \* pid |-> history: the record of its last completed write
    vanished,   \* pid |-> history: names whose read threw in this scan
    denied      \* pid |-> TRUE when the process may not write FLEET_DIR

\* discovery.ts: what discoverFleet consults and what it returns.
VARIABLES
    git,        \* the repository as the git commands of the caller see it
    sessions,   \* ~/.pi/agent/sessions: directory name |-> its state
    fleet,      \* the outcome of the last discoverFleet
    paths,      \* the absolute paths handed to encodeSessionPath
    keys        \* what encodeSessionPath returned for them

discVars == <<git, sessions, fleet, paths, keys>>

\* index.ts and dashboard.ts: the /fleet command of the dashboard process.
VARIABLES
    dropped,    \* pid |-> history: an event arrived before any session
    dash,       \* the FleetDashboard object, none while no dashboard is open
    action,     \* what the last FleetDashboard.handleInput returned
    flow,       \* the position of handleRemove and its entry
    removals    \* history: the calls of git worktree remove

uiVars == <<dash, action, flow, removals>>

vars == <<files, proc, foreign, hb, handle, timers, pc, todo, cur, raw,
          result, thrown, lastPub, vanished, denied, discVars, dropped,
          uiVars>>

\* ---------------------------------------------------- heartbeat.ts helpers
\* isPidRunning(pid) as evaluated by process o: process.kill(pid, 0) throws
\* ESRCH when no such process exists and EPERM when it exists under another
\* user id and o is not privileged; the catch turns both into false.
ProbeError(o, pid) ==
    IF proc[pid] = "dead" THEN "ESRCH"
    ELSE IF foreign[pid] /\ ~foreign[o] THEN "EPERM"
    ELSE "none"

\* Variant: the catch answers true.
IsPidRunningCatchTrue(o, pid) == TRUE

IsPidRunning(o, pid) == ProbeError(o, pid) = "none"

\* unlinkSync(name) by process o on the directory fs: ENOENT when the name
\* does not exist, EACCES when o may not write the directory.
UnlinkError(o, fs, name) ==
    IF fs[name] = Absent THEN "ENOENT"
    ELSE IF denied[o] THEN "EACCES"
    ELSE "none"

UnlinkThrows(o, fs, name) == UnlinkError(o, fs, name) # "none"

\* The directory after the call: the name is gone unless the call failed.
\* Variant: the call empties the directory.
UnlinkRemovesAll(o, fs, name) == [f \in DOMAIN fs |-> Absent]

Unlinked(o, fs, name) ==
    IF UnlinkThrows(o, fs, name) THEN fs ELSE [fs EXCEPT ![name] = Absent]

\* removeHeartbeat: try { unlinkSync } catch { } -- the error does not leave
\* the function.
\* Variant: unlinkSync outside the try.
RemoveRethrows(err) == err

RemoveEscapes(err) == FALSE

\* readAllHeartbeats: the two inner  try { unlinkSync } catch {}  blocks.
\* Variant: unlinkSync outside the try.
ReclaimRethrows(err) == err

ReclaimEscapes(err) == FALSE

\* readAllHeartbeats: the outer try/catch around readFileSync and JSON.parse;
\* an error there does not leave the loop body, it leads to the reclaim.
\* Variant: readFileSync outside the try.
ReadRethrows(err) == err

ReadEscapes(err) == FALSE

\* The body of the for loop for one name whose read returned r (ENOENT when
\* readFileSync threw): what the iteration does.
ScanBody(o, name, r) ==
    IF r = ENOENT THEN "reclaim"
    ELSE IF Parse(r[1]) = ParseError THEN "reclaim"
    ELSE IF IsPidRunning(o, name) THEN "push"
    ELSE "reclaim"

\* ------------------------------------------------------ index.ts helpers
\* A message of message_end: its role and its content, which is a string,
\* an array of parts or missing.  event.message itself may be missing.
StringContent(t) == [kind |-> "string", text |-> t, parts |-> <<>>]
ArrayContent(ps) == [kind |-> "array", text |-> <<>>, parts |-> ps]
NoContent == [kind |-> "none", text |-> <<>>, parts |-> <<>>]
TextPart(t) == [type |-> "text", text |-> t]
ImagePart == [type |-> "image", text |-> <<>>]
NoMessage == [role |-> "undefined", content |-> NoContent]

Contents ==
    {NoContent, StringContent(<<>>), StringContent(<<"a">>),
     StringContent(Repeat("b", ExcerptCap + 1)),
     ArrayContent(<<ImagePart>>),
     ArrayContent(<<TextPart(<<"a">>), ImagePart, TextPart(<<"b">>)>>)}

Messages ==
    [role: {"user", "assistant"}, content: Contents]
        \cup {NoMessage, [role |-> "toolResult",
                          content |-> StringContent(<<"a">>)]}

\* The messages of the whole-lifecycle specification.
LifeMessages ==
    {[role |-> "user", content |-> StringContent(<<"a">>)],
     [role |-> "assistant", content |-> ArrayContent(<<ImagePart>>)]}

\* Variant: the string is not cut.
SliceNothing(s, n) == s

\* s.slice(0, n)
Slice(s, n) == SubSeq(s, 1, IF Len(s) < n THEN Len(s) ELSE n)

\* texts.join(" ")
RECURSIVE Join(_)
Join(ts) ==
    IF ts = <<>> THEN <<>>
    ELSE IF Len(ts) = 1 THEN ts[1]
    ELSE ts[1] \o <<" ">> \o Join(Tail(ts))

IsTextPart(c) == c.type = "text"

\* extractText(message): the string content as it is; of an array content
\* the text parts joined and cut, null when that is empty; else null.
ExtractText(message) ==
    IF message = NoMessage THEN None
    ELSE IF message.content.kind = "string" THEN Some(message.content.text)
    ELSE IF message.content.kind = "array"
    THEN LET textParts == SelectSeq(message.content.parts, IsTextPart)
             texts == [i \in 1..Len(textParts) |-> textParts[i].text]
             joined == Slice(Join(texts), ExcerptCap)
         IN IF joined = <<>> THEN None ELSE Some(joined)
    ELSE None

InitRecord(p) ==
    [pid |-> p, cwd |-> CwdOf(p), model |-> Null, status |-> "idle",
     currentTool |-> Null, lastUserMessage |-> None,
     lastAssistantSnippet |-> None, turns |-> 0]

\* Object.assign(hb, partial)
Assign(rec, partial) ==
    [k \in DOMAIN rec |-> IF k \in DOMAIN partial THEN partial[k] ELSE rec[k]]

Running(p) == proc[p] = "alive"
AtRest(p) == Running(p) /\ pc[p] = "idle"

\* writeFileSync opens the file with O_CREAT | O_TRUNC: from this call on the
\* name exists and the file is empty.
OpenTrunc(p) == files' = [files EXCEPT ![p] = Some(Empty)]

\* updateHb(partial): nothing without a heartbeat; otherwise assign and start
\* writeHeartbeat (the write itself is the next step of the process).
\* Variant: without a heartbeat, updateHb creates the initial one and writes.
UpdateHbInitialises(p, partial) ==
    /\ hb' = [hb EXCEPT ![p] =
                 Some(Assign(IF hb[p] = None THEN InitRecord(p)
                             ELSE hb[p][1], partial))]
    /\ OpenTrunc(p)
    /\ pc' = [pc EXCEPT ![p] = "w"]
    /\ dropped' = [dropped EXCEPT ![p] = @ \/ hb[p] = None]
    /\ UNCHANGED <<proc, foreign, handle, timers, todo, cur, raw,
                   result, thrown, lastPub, vanished,
                   denied, discVars, uiVars>>

UpdateHb(p, partial) ==
    IF hb[p] = None
    THEN /\ dropped' = [dropped EXCEPT ![p] = TRUE]
         /\ UNCHANGED <<files, proc, foreign, hb, handle, timers, pc, todo,
                        cur, raw, result, thrown, lastPub, vanished, denied,
                        discVars, uiVars>>
    ELSE /\ hb' = [hb EXCEPT ![p] = Some(Assign(hb[p][1], partial))]
         /\ OpenTrunc(p)
         /\ pc' = [pc EXCEPT ![p] = "w"]
         /\ UNCHANGED <<proc, foreign, handle, timers, todo, cur, raw,
                        result, thrown, lastPub, vanished,
                   denied, discVars, dropped, uiVars>>

\* ------------------------------------------------------------------ Init
\* No discoverFleet and no encodeSessionPath has run.
NoQuery ==
    /\ git = None
    /\ sessions = None
    /\ fleet = None
    /\ paths = <<>>
    /\ keys = <<>>

\* No /fleet command has run.
NoDashboard ==
    /\ dash = None
    /\ action = None
    /\ flow = None
    /\ removals = <<>>

\* Every process has just loaded the extension: no handler has run yet.
Loaded ==
    /\ hb = [p \in Pids |-> None]
    /\ handle = [p \in Pids |-> FALSE]
    /\ timers = [p \in Pids |-> 0]
    /\ pc = [p \in Pids |-> "idle"]
    /\ todo = [p \in Pids |-> {}]
    /\ cur = [p \in Pids |-> 0]
    /\ raw = [p \in Pids |-> ENOENT]
    /\ result = [p \in Pids |-> <<>>]
    /\ thrown = [p \in Pids |-> FALSE]
    /\ lastPub = [p \in Pids |-> None]
    /\ vanished = [p \in Pids |-> {}]
    /\ dropped = [p \in Pids |-> FALSE]

Init ==
    /\ files = [p \in Pids |-> Absent]
    /\ proc = [p \in Pids |-> "alive"]
    /\ \E F \in SUBSET MayBeForeign : foreign = [p \in Pids |-> p \in F]
    /\ \E D \in SUBSET MayBeDenied : denied = [p \in Pids |-> p \in D]
    /\ Loaded
    /\ NoQuery
    /\ NoDashboard

\* ------------------------------------------------- the heartbeat lifecycle
\* session_start, up to the open of initHeartbeat's writeHeartbeat.
SessionStart(p) ==
    /\ AtRest(p)
    /\ timers[p] < MaxTimers
    /\ hb' = [hb EXCEPT ![p] = Some(InitRecord(p))]
    /\ OpenTrunc(p)
    /\ pc' = [pc EXCEPT ![p] = "init_w"]
    /\ UNCHANGED <<proc, foreign, handle, timers, todo, cur, raw, result,
                   thrown, lastPub, vanished,
                   denied, discVars, uiVars>>
    /\ dropped' = [dropped EXCEPT ![p] = FALSE]

\* The write of writeFileSync: the whole text goes into the file that was
\* opened; when the name was unlinked since the open, the text goes into a
\* file no name refers to.
\* Variant: the write puts nothing into the file.
WriteNothing(p) == files' = files

WriteText(p) ==
    files' = [files EXCEPT ![p] =
                 IF files[p] = Absent THEN Absent
                 ELSE Some(Stringify(hb[p][1]))]

\* setInterval(() => updateHb({}), 30_000), assigned to heartbeatInterval.
SetInterval(p) ==
    /\ timers' = [timers EXCEPT ![p] = @ + 1]
    /\ handle' = [handle EXCEPT ![p] = TRUE]

WriteDone(p) ==
    /\ Running(p)
    /\ pc[p] \in {"w", "init_w", "model_w"}
    /\ WriteText(p)
    /\ IF pc[p] = "model_w"
       THEN SetInterval(p)
       ELSE UNCHANGED <<timers, handle>>
    /\ pc' = [pc EXCEPT ![p] = IF pc[p] = "init_w" THEN "started" ELSE "idle"]
    /\ lastPub' = [lastPub EXCEPT ![p] = hb[p]]
    /\ UNCHANGED <<proc, foreign, hb, todo, cur, raw, result, thrown,
                   vanished,
                   denied, discVars, dropped, uiVars>>

\* session_start after initHeartbeat: if (ctx.model) updateHb({model});
\* then setInterval.
SessionStartModel(p) ==
    /\ Running(p)
    /\ pc[p] = "started"
    /\ \E m \in Models \cup {Null} :
          IF m # Null
          THEN /\ hb' = [hb EXCEPT ![p] = Some(Assign(hb[p][1], [model |-> m]))]
               /\ OpenTrunc(p)
               /\ pc' = [pc EXCEPT ![p] = "model_w"]
               /\ UNCHANGED <<timers, handle>>
          ELSE /\ SetInterval(p)
               /\ pc' = [pc EXCEPT ![p] = "idle"]
               /\ UNCHANGED <<hb, files>>
    /\ UNCHANGED <<proc, foreign, todo, cur, raw, result, thrown, lastPub,
                   vanished,
                   denied, discVars, dropped, uiVars>>

\* session_shutdown: clearInterval of the handle, then removeHeartbeat.
SessionShutdown(p) ==
    /\ AtRest(p)
    /\ IF handle[p]
       THEN /\ timers' = [timers EXCEPT ![p] = @ - 1]
            /\ handle' = [handle EXCEPT ![p] = FALSE]
       ELSE UNCHANGED <<timers, handle>>
    /\ thrown' = [thrown EXCEPT
                      ![p] = @ \/ RemoveEscapes(UnlinkThrows(p, files, p))]
    /\ files' = Unlinked(p, files, p)
    /\ UNCHANGED <<proc, foreign, hb, pc, todo, cur, raw, result, lastPub,
                   vanished,
                   denied, discVars, dropped, uiVars>>

AgentStart(p) ==
    AtRest(p) /\ UpdateHb(p, [status |-> "streaming", currentTool |-> Null])

\* Variant: agent_end leaves currentTool as it is.
AgentEndKeepsTool(p) == AtRest(p) /\ UpdateHb(p, [status |-> "idle"])

AgentEnd(p) ==
    AtRest(p) /\ UpdateHb(p, [status |-> "idle", currentTool |-> Null])

ToolExecutionStart(p) ==
    /\ AtRest(p)
    /\ \E t \in Tools :
          UpdateHb(p, [status |-> "tool_running", currentTool |-> t])

ToolExecutionEnd(p) ==
    AtRest(p) /\ UpdateHb(p, [status |-> "streaming", currentTool |-> Null])

ModelSelect(p) ==
    AtRest(p) /\ \E m \in Models : UpdateHb(p, [model |-> m])

TurnEnd(p) ==
    /\ AtRest(p)
    /\ IF hb[p] # None
       THEN /\ hb[p][1].turns < MaxTurns
            /\ UpdateHb(p, [turns |-> hb[p][1].turns + 1])
       ELSE /\ dropped' = [dropped EXCEPT ![p] = TRUE]
            /\ UNCHANGED <<files, proc, foreign, hb, handle, timers, pc,
                           todo, cur, raw, result, thrown, lastPub, vanished,
                           denied, discVars, uiVars>>

\* message_end: the excerpt of a user or assistant message with text.
MessageEnd(p, m) ==
    /\ AtRest(p)
    /\ LET text == ExtractText(m)
           truthy == text # None /\ text[1] # <<>>
       IN IF m # NoMessage /\ m.role = "user" /\ truthy
          THEN UpdateHb(p, [lastUserMessage |->
                                Some(Slice(text[1], ExcerptCap))])
          ELSE IF m # NoMessage /\ m.role = "assistant" /\ truthy
          THEN UpdateHb(p, [lastAssistantSnippet |->
                                Some(Slice(text[1], ExcerptCap))])
          ELSE UNCHANGED vars

\* The callback of an interval that was created and not cleared.
Tick(p) ==
    /\ AtRest(p)
    /\ timers[p] > 0
    /\ UpdateHb(p, <<>>)

\* The process ends without running session_shutdown (kill, crash).
Crash(p) ==
    /\ Running(p)
    /\ proc' = [proc EXCEPT ![p] = "dead"]
    /\ hb' = [hb EXCEPT ![p] = None]
    /\ handle' = [handle EXCEPT ![p] = FALSE]
    /\ timers' = [timers EXCEPT ![p] = 0]
    /\ pc' = [pc EXCEPT ![p] = "idle"]
    /\ todo' = [todo EXCEPT ![p] = {}]
    /\ cur' = [cur EXCEPT ![p] = 0]
    /\ raw' = [raw EXCEPT ![p] = ENOENT]
    /\ result' = [result EXCEPT ![p] = <<>>]
    /\ vanished' = [vanished EXCEPT ![p] = {}]
    /\ UNCHANGED <<files, foreign, thrown, lastPub,
                   denied, discVars, uiVars>>
    /\ dropped' = [dropped EXCEPT ![p] = FALSE]

\* ----------------------------------------------------- readAllHeartbeats
\* readdirSync returns the names sorted; the loop visits them in that order.
NextName(names) == CHOOSE f \in names : \A g \in names : f <= g

\* readdirSync: the names that exist now; heartbeats = [].
ScanStart(p) ==
    /\ AtRest(p)
    /\ LET listing == {f \in Pids : files[f] # Absent}
       IN /\ todo' = [todo EXCEPT ![p] = listing]
          /\ pc' = [pc EXCEPT ![p] = IF listing = {} THEN "ret" ELSE "scan"]
    /\ result' = [result EXCEPT ![p] = <<>>]
    /\ vanished' = [vanished EXCEPT ![p] = {}]
    /\ UNCHANGED <<files, proc, foreign, hb, handle, timers, cur, raw, thrown,
                   lastPub,
                   denied, discVars, dropped, uiVars>>

\* readFileSync of the next name of the listing.  The text returned is the
\* text the file has at one instant: a writer empties the file at its open
\* and then puts the whole text with one write, so the file holds either
\* nothing or a whole text.
ScanRead(p) ==
    /\ Running(p)
    /\ pc[p] = "scan"
    /\ LET f == NextName(todo[p])
       IN /\ cur' = [cur EXCEPT ![p] = f]
          /\ raw' = [raw EXCEPT ![p] = files[f]]
          /\ vanished' = [vanished EXCEPT
                             ![p] = IF files[f] = Absent THEN @ \cup {f} ELSE @]
          /\ IF files[f] = Absent /\ ReadEscapes(TRUE)
             THEN /\ thrown' = [thrown EXCEPT ![p] = TRUE]
                  /\ pc' = [pc EXCEPT ![p] = "idle"]
             ELSE /\ pc' = [pc EXCEPT ![p] = "decide"]
                  /\ UNCHANGED thrown
    /\ UNCHANGED <<files, proc, foreign, hb, handle, timers, todo, result,
                   lastPub,
                   denied, discVars, dropped, uiVars>>

\* JSON.parse, isPidRunning and then heartbeats.push or unlinkSync; after
\* the last name, return heartbeats.
ScanDecide(p) ==
    /\ Running(p)
    /\ pc[p] = "decide"
    /\ LET f == cur[p]
           rest == todo[p] \ {f}
       IN /\ IF ScanBody(p, f, raw[p]) = "push"
             THEN /\ result' = [result EXCEPT
                                   ![p] = Append(@, Parse(raw[p][1])[1])]
                  /\ UNCHANGED <<files, thrown>>
             ELSE /\ thrown' = [thrown EXCEPT
                                   ![p] = @ \/ ReclaimEscapes(
                                                  UnlinkThrows(p, files, f))]
                  /\ files' = Unlinked(p, files, f)
                  /\ UNCHANGED result
          /\ todo' = [todo EXCEPT ![p] = rest]
          /\ pc' = [pc EXCEPT ![p] = IF rest = {} THEN "ret" ELSE "scan"]
    /\ cur' = [cur EXCEPT ![p] = 0]
    /\ raw' = [raw EXCEPT ![p] = ENOENT]
    /\ UNCHANGED <<proc, foreign, hb, handle, timers, lastPub, vanished,
                   denied, discVars, dropped, uiVars>>

\* The caller takes the returned array.
ScanReturn(p) ==
    /\ Running(p)
    /\ pc[p] = "ret"
    /\ pc' = [pc EXCEPT ![p] = "idle"]
    /\ result' = [result EXCEPT ![p] = <<>>]
    /\ vanished' = [vanished EXCEPT ![p] = {}]
    /\ UNCHANGED <<files, proc, foreign, hb, handle, timers, todo, cur, raw,
                   thrown, lastPub,
                   denied, discVars, dropped, uiVars>>

\* readAllHeartbeats run without any other process taking a step: the loop
\* over the sorted listing of fs, by process o.
RECURSIVE ScanLoop(_, _, _, _, _)
ScanLoop(o, names, fs, acc, err) ==
    IF names = {} \/ err
    THEN [result |-> acc, files |-> fs, thrown |-> err]
    ELSE LET f == NextName(names)
             r == fs[f]
         IN IF r = ENOENT /\ ReadEscapes(TRUE)
            THEN ScanLoop(o, names \ {f}, fs, acc, TRUE)
            ELSE IF ScanBody(o, f, r) = "push"
            THEN ScanLoop(o, names \ {f}, fs, Append(acc, Parse(r[1])[1]), err)
            ELSE ScanLoop(o, names \ {f}, Unlinked(o, fs, f), acc,
                          ReclaimEscapes(UnlinkThrows(o, fs, f)))

SeqScan(o, fs) == ScanLoop(o, {f \in Pids : fs[f] # Absent}, fs, <<>>, FALSE)

\* ------------------------------------------------------------ discovery.ts
\* path.dirname, path.basename and path.resolve on an absolute path.
LastSep(p) ==
    CHOOSE i \in 1..Len(p) :
        p[i] = "/" /\ \A j \in (i + 1)..Len(p) : p[j] # "/"

Dirname(p) ==
    IF LastSep(p) = 1 THEN <<"/">> ELSE SubSeq(p, 1, LastSep(p) - 1)

Basename(p) == SubSeq(p, LastSep(p) + 1, Len(p))

Resolve(p) ==
    IF Len(p) > 1 /\ p[Len(p)] = "/" THEN SubSeq(p, 1, Len(p) - 1) ELSE p

\* The repository the caller stands in.  ok: the git commands succeed (the
\* directory is inside a repository and git runs); bare: the repository at
\* /r is a bare one, its worktrees are the linked ones; linked: the linked
\* worktrees in the order git lists them.
LinkedLists ==
    {<<>>, <<LinkedA>>, <<LinkedB>>, <<LinkedA, LinkedB>>,
     <<LinkedB, LinkedA>>}

Repositories ==
    [ok: {TRUE}, bare: BOOLEAN, linked: LinkedLists]
        \cup {[ok |-> FALSE, bare |-> FALSE, linked |-> <<>>]}

\* git worktree list: the main worktree (or the bare repository) first.
Listing(g) == <<MainPath>> \o g.linked

\* git rev-parse --path-format=absolute --git-common-dir
GitCommonDir(g) == IF g.bare THEN MainPath ELSE MainPath \o <<"/", ".git">>

GetMainWorktreePath(g) == Dirname(GitCommonDir(g))

\* A line of the porcelain output is a tuple: its keyword (with the blank
\* that follows it) and its argument; <<"">> is the empty line.
Blank == <<"">>

\* /r-w has a detached HEAD, the other worktrees are on a branch.
HeadLines(g, path) ==
    IF g.bare /\ path = MainPath THEN <<<<"bare">>>>
    ELSE IF path = LinkedB THEN <<<<"HEAD ", "sha">>, <<"detached">>>>
    ELSE <<<<"HEAD ", "sha">>,
           <<"branch ", <<"refs/heads/">> \o Basename(path)>>>>

RECURSIVE Porcelain(_, _)
Porcelain(g, ps) ==
    IF ps = <<>> THEN <<>>
    ELSE <<<<"worktree ", Head(ps)>>>> \o HeadLines(g, Head(ps))
             \o <<Blank>> \o Porcelain(g, Tail(ps))

\* String.prototype.trim on the output: the empty lines at its end go.
RECURSIVE Trim(_)
Trim(lines) ==
    IF lines # <<>> /\ lines[Len(lines)] = Blank
    THEN Trim(SubSeq(lines, 1, Len(lines) - 1))
    ELSE lines

\* output.split("\n"): the empty string gives one empty line.
Split(lines) == IF lines = <<>> THEN <<Blank>> ELSE lines

\* git(args, cwd): execSync throws when the command fails.
\* Variant: the failure is caught and the empty output returned.
GitSwallows(g) == FALSE

GitThrows(g) == ~g.ok

GitWorktreeList(g) == IF g.ok THEN Trim(Porcelain(g, Listing(g))) ELSE <<>>

\* .replace("refs/heads/", "") on the argument of a branch line.
StripHeads(ref) ==
    IF ref # <<>> /\ ref[1] = "refs/heads/" THEN Tail(ref) ELSE ref

\* The parse loop: current is the entry being collected, wts (raw) the entries
\* pushed so far.
NoEntry == [path |-> None, branch |-> None]

\* The texts "unknown" and "HEAD (detached)", letter by letter.
Unknown == <<"u", "n", "k", "n", "o", "w", "n">>
Detached ==
    <<"H", "E", "A", "D", " ", "(", "d", "e", "t", "a", "c", "h", "e", "d",
      ")">>

\* Variant: nothing is pushed.
FlushNever(wts, current) == wts

\* if (current.path) raw.push({path, branch: current.branch || "unknown"})
Flush(wts, current) ==
    IF current.path # None
    THEN Append(wts, [path |-> current.path[1],
                      branch |-> IF current.branch # None
                                 THEN current.branch[1]
                                 ELSE Unknown])
    ELSE wts

RECURSIVE ParseLines(_, _, _)
ParseLines(lines, current, wts) ==
    IF lines = <<>> THEN Flush(wts, current)
    ELSE LET line == Head(lines)
             rest == Tail(lines)
         IN IF line[1] = "worktree "
            THEN ParseLines(rest, [current EXCEPT !.path = Some(line[2])],
                            wts)
            ELSE IF line[1] = "branch "
            THEN ParseLines(rest,
                            [current EXCEPT
                                !.branch = Some(StripHeads(line[2]))], wts)
            ELSE IF line = <<"detached">>
            THEN ParseLines(rest,
                            [current EXCEPT
                                !.branch = Some(Detached)], wts)
            ELSE IF line = Blank
            THEN ParseLines(rest, NoEntry, Flush(wts, current))
            ELSE ParseLines(rest, current, wts)

\* encodeSessionPath: one leading separator is dropped, every other one
\* becomes a hyphen, two hyphens go in front and two behind.
EncodeSessionPath(p) ==
    LET stripped == IF p # <<>> /\ p[1] = "/" THEN Tail(p) ELSE p
    IN <<"-", "-">>
         \o [i \in 1..Len(stripped) |->
                IF stripped[i] = "/" THEN "-" ELSE stripped[i]]
         \o <<"-", "-">>

\* A session directory: absent, unreadable (readdirSync throws), or listed.
\* A name is the pair of its stem and its suffix.
SessionNames == {<<"s1", ".jsonl">>, <<"s2", ".jsonl">>, <<"s1.jsonl", ".bak">>}
NoDir == [state |-> "absent", names |-> {}]
DirStates ==
    {NoDir, [state |-> "unreadable", names |-> SessionNames]}
        \cup {[state |-> "listed", names |-> N] :
                 N \in {{<<"s1.jsonl", ".bak">>},
                        {<<"s1", ".jsonl">>, <<"s1.jsonl", ".bak">>},
                        SessionNames}}

SessionDirs == {EncodeSessionPath(p) : p \in WorktreePaths}

\* Variant: every name of the directory counts.
EndsWithAnything(f) == TRUE

EndsWithJsonl(f) == f[Len(f)] = ".jsonl"

\* existsSync, then readdirSync(...).filter(...).length inside try/catch.
SessionCount(dir) ==
    IF dir.state = "absent" THEN 0
    ELSE IF dir.state = "unreadable" THEN 0
    ELSE Cardinality({f \in dir.names : EndsWithJsonl(f)})

\* heartbeats.map((h) => [h.cwd, h]): reading .cwd of null throws TypeError.
MapThrows(hs) == \E i \in 1..Len(hs) : hs[i] = JsNull

\* Variant: the last record of the array, whatever its cwd.
LastHeartbeat(hs, path) == IF hs = <<>> THEN None ELSE Some(hs[Len(hs)])

\* new Map(...).get(path) ?? null: a later record of the same cwd replaces
\* an earlier one.
HeartbeatByCwd(hs, path) ==
    LET idx == {i \in 1..Len(hs) :
                   "cwd" \in DOMAIN hs[i] /\ hs[i].cwd = path}
    IN IF idx = {} THEN None
       ELSE Some(hs[CHOOSE i \in idx : \A j \in idx : j <= i])

\* The entry discoverFleet builds for one parsed worktree.
Entry(wt, g, cwd, hs, dirs) ==
    LET sessionCount == SessionCount(dirs[EncodeSessionPath(wt.path)])
    IN [path |-> wt.path,
        branch |-> wt.branch,
        name |-> Basename(wt.path),
        isMain |-> wt.path = GetMainWorktreePath(g),
        isCurrent |-> wt.path = Resolve(cwd),
        heartbeat |-> HeartbeatByCwd(hs, wt.path),
        hasSessionHistory |-> sessionCount > 0,
        sessionCount |-> sessionCount]

\* discoverFleet(ctx.cwd) by process o in repository g over the store fs, run
\* without another process taking a step: whether it threw, the array returned (none when it threw), the
\* array readAllHeartbeats returned and the store it leaves.
DiscoveredIn(o, g, fs) ==
    IF GitThrows(g)
    THEN [threw |-> TRUE, entries |-> None, snapshot |-> <<>>,
          files |-> fs]
    ELSE LET wts == ParseLines(Split(GitWorktreeList(g)), NoEntry, <<>>)
             scan == SeqScan(o, fs)
             fails == scan.thrown \/ MapThrows(scan.result)
         IN [threw |-> fails,
             entries |->
                 IF fails THEN None
                 ELSE Some([i \in 1..Len(wts) |->
                               Entry(wts[i], g, CwdOf(o), scan.result,
                                     sessions)]),
             snapshot |-> scan.result,
             files |-> scan.files]

Discovered(o) == DiscoveredIn(o, git, files)

\* A call of discoverFleet with no command around it.  fleet keeps the
\* outcome.
DiscoverFleet(o) ==
    /\ AtRest(o)
    /\ files' = Discovered(o).files
    /\ thrown' = [thrown EXCEPT ![o] = @ \/ Discovered(o).threw]
    /\ fleet' = Some([threw |-> Discovered(o).threw,
                      entries |-> Discovered(o).entries,
                      snapshot |-> Discovered(o).snapshot])
    /\ UNCHANGED <<proc, foreign, hb, handle, timers, pc, todo, cur, raw,
                   result, lastPub, vanished, denied, git, sessions, paths,
                   keys, dropped, uiVars>>

\* ----------------------------------------------------------- dashboard.ts
\* The dashboard is a record: entries, the array shown; selected, the index
\* of the selected row, counted from 0 as in the source; expanded, the set
\* of the indexes of the expanded rows.
FleetDashboard(entries) ==
    [entries |-> entries, selected |-> 0, expanded |-> {}]

Min(a, b) == IF a < b THEN a ELSE b
Max(a, b) == IF a > b THEN a ELSE b

\* this.entries[this.selected]: none when the index is outside the array.
Selected(d) ==
    IF d.selected + 1 \in 1..Len(d.entries)
    THEN Some(d.entries[d.selected + 1])
    ELSE None

\* entries.findIndex(e => e.path === path): the first match, or -1.
FindIndex(entries, path) ==
    LET hits == {i \in 1..Len(entries) : entries[i].path = path}
    IN IF hits = {} THEN -1
       ELSE (CHOOSE i \in hits : \A j \in hits : i <= j) - 1

\* Variant: the selection keeps its index, cut to the new array.
SetEntriesKeepsIndex(d, entries) ==
    [entries |-> entries,
     selected |-> Min(d.selected, Max(0, Len(entries) - 1)),
     expanded |-> {}]

\* setEntries(entries)
SetEntries(d, entries) ==
    LET selectedPath ==
            IF Selected(d) = None THEN None ELSE Some(Selected(d)[1].path)
        idx == FindIndex(entries, selectedPath[1])
    IN [entries |-> entries,
        selected |->
            IF selectedPath # None /\ selectedPath[1] # <<>>
            THEN IF idx >= 0 THEN idx
                 ELSE Min(d.selected, Max(0, Len(entries) - 1))
            ELSE 0,
        expanded |-> {}]

\* What handleInput returns: null, "close", or an action with its type and,
\* except for "create", its entry.
NullResult == [type |-> "null", entry |-> None]
CloseResult == [type |-> "close", entry |-> None]
CreateAction == [type |-> "create", entry |-> None]
EntryAction(type, e) == [type |-> type, entry |-> Some(e)]

\* The keys: Key.up, Key.down, Key.enter and Key.escape by name, the letters
\* as typed; "z" stands for every other input.
Keys ==
    {"up", "k", "down", "j", "d", "enter", "s", "l", "c", "x", "escape",
     "q", "r", "z"}

MoveUp(d) ==
    IF d.selected > 0 THEN [d EXCEPT !.selected = @ - 1] ELSE d

\* Variant: the selection moves down without a look at the array.
MoveDownUnchecked(d) == [d EXCEPT !.selected = @ + 1]

MoveDown(d) ==
    IF d.selected < Len(d.entries) - 1
    THEN [d EXCEPT !.selected = @ + 1]
    ELSE d

ToggleDetails(d) ==
    IF d.selected \in d.expanded
    THEN [d EXCEPT !.expanded = @ \ {d.selected}]
    ELSE [d EXCEPT !.expanded = @ \cup {d.selected}]

\* open, switch and launch: if (entry && !entry.isCurrent)
OnOther(d, type) ==
    IF Selected(d) # None /\ ~Selected(d)[1].isCurrent
    THEN EntryAction(type, Selected(d)[1])
    ELSE NullResult

\* remove: if (entry && !entry.isCurrent && !entry.isMain)
OnRemovable(d) ==
    IF /\ Selected(d) # None
       /\ ~Selected(d)[1].isCurrent
       /\ ~Selected(d)[1].isMain
    THEN EntryAction("remove", Selected(d)[1])
    ELSE NullResult

\* handleInput(data): the dashboard afterwards and what is returned.
HandleInput(d, data) ==
    IF data \in {"up", "k"} THEN [dash |-> MoveUp(d), result |-> NullResult]
    ELSE IF data \in {"down", "j"}
    THEN [dash |-> MoveDown(d), result |-> NullResult]
    ELSE IF data = "d"
    THEN [dash |-> ToggleDetails(d), result |-> NullResult]
    ELSE IF data = "enter" THEN [dash |-> d, result |-> OnOther(d, "open")]
    ELSE IF data = "s" THEN [dash |-> d, result |-> OnOther(d, "switch")]
    ELSE IF data = "l" THEN [dash |-> d, result |-> OnOther(d, "launch")]
    ELSE IF data = "c" THEN [dash |-> d, result |-> CreateAction]
    ELSE IF data = "x" THEN [dash |-> d, result |-> OnRemovable(d)]
    ELSE IF data \in {"escape", "q"}
    THEN [dash |-> d, result |-> CloseResult]
    ELSE [dash |-> d, result |-> NullResult]

\* A call of dashboard.handleInput with no command around it.
HandleInputCall(data) ==
    /\ dash # None
    /\ dash' = Some(HandleInput(dash[1], data).dash)
    /\ action' = Some(HandleInput(dash[1], data).result)
    /\ UNCHANGED <<files, proc, foreign, hb, handle, timers, pc, todo, cur,
                   raw, result, thrown, lastPub, vanished, denied, discVars,
                   dropped, flow, removals>>

\* A call of dashboard.setEntries with no command around it.
SetEntriesCall(entries) ==
    /\ dash # None
    /\ dash' = Some(SetEntries(dash[1], entries))
    /\ action' = None
    /\ UNCHANGED <<files, proc, foreign, hb, handle, timers, pc, todo, cur,
                   raw, result, thrown, lastPub, vanished, denied, discVars,
                   dropped, flow, removals>>

\* ------------------------------------------------------------- worktree.ts
\* git worktree remove [--force] path, run in repository g.  dirty: the
\* worktree holds modified or untracked files.  git removes a linked
\* worktree, a dirty one only with --force, and fails for every other path
\* (the main working tree, a bare repository, no worktree at all); only the
\* failure for a dirty worktree speaks of modified or untracked files.
GitWorktreeRemove(g, path, force, dirty) ==
    LET linked == \E i \in 1..Len(g.linked) : g.linked[i] = path
    IN IF linked /\ (force \/ ~dirty)
       THEN [success |-> TRUE, uncommitted |-> FALSE,
             git |-> [g EXCEPT !.linked = SelectSeq(@, LAMBDA q : q # path)]]
       ELSE [success |-> FALSE, uncommitted |-> linked /\ ~force,
             git |-> g]

\* removeWorktree(cwd, worktreePath, force): ran tells whether git worktree
\* remove was run.
RemoveWorktree(g, worktreePath, force, dirty) ==
    IF worktreePath = GetMainWorktreePath(g)
    THEN [success |-> FALSE, uncommitted |-> FALSE, ran |-> FALSE, git |-> g]
    ELSE LET out == GitWorktreeRemove(g, worktreePath, force, dirty)
         IN [success |-> out.success, uncommitted |-> out.uncommitted,
             ran |-> TRUE, git |-> out.git]

\* ------------------------------------------------ index.ts, /fleet commands
\* A live process has a complete record with this working directory in the
\* store.
LiveAt(fs, path) ==
    \E p \in Pids :
        /\ proc[p] = "alive"
        /\ fs[p] # Absent
        /\ WellFormed(fs[p][1])
        /\ Parse(fs[p][1])[1].cwd = path

\* The git worktree remove that was run, as history: its path, whether it
\* was forced, the path it came by, and whether a live record for the path
\* was in the store at that moment.
Removal(path, force, via) ==
    [path |-> path, force |-> force, via |-> via,
     live |-> LiveAt(files, path)]

\* String.prototype.toLowerCase on the letters that occur.
Lower(c) ==
    CASE c = "W" -> "w"
      [] c = "R" -> "r"
      [] c = "H" -> "h"
      [] c = "E" -> "e"
      [] c = "A" -> "a"
      [] c = "D" -> "d"
      [] OTHER -> c

ToLowerCase(s) == [i \in 1..Len(s) |-> Lower(s[i])]

\* String.prototype.includes
Includes(s, part) ==
    \E i \in 0..(Len(s) - Len(part)) : SubSeq(s, i + 1, i + Len(part)) = part

\* Array.prototype.find with one of the three tests of findWorktree.
Matches(e, lower, test) ==
    CASE test = 1 -> ToLowerCase(e.name) = lower
      [] test = 2 -> Includes(ToLowerCase(e.name), lower)
      [] test = 3 -> Includes(ToLowerCase(e.branch), lower)

Find(entries, lower, test) ==
    LET hits == {i \in 1..Len(entries) : Matches(entries[i], lower, test)}
    IN IF hits = {} THEN None
       ELSE Some(entries[CHOOSE i \in hits : \A j \in hits : i <= j])

\* findWorktree(entries, name)
FindWorktree(entries, name) ==
    LET lower == ToLowerCase(name)
    IN IF Find(entries, lower, 1) # None THEN Find(entries, lower, 1)
       ELSE IF Find(entries, lower, 2) # None THEN Find(entries, lower, 2)
       ELSE Find(entries, lower, 3)

\* handleRemove up to its first confirmation: refused for the main worktree,
\* the current one and one with a heartbeat in the entry.
Refused(e) == e.isMain \/ e.isCurrent \/ e.heartbeat # None

\* The command is at a position: owner, the process running it; stage,
\* "dashboard" (the dashboard is open), "confirm" (handleRemove waits for the
\* first confirmation) or "force" (for the second); via, the command it is;
\* entry, the entry handleRemove was given.
Position(o, stage, via, e) ==
    [owner |-> o, stage |-> stage, via |-> via, entry |-> e]

At(o, stage) ==
    flow # None /\ flow[1].owner = o /\ flow[1].stage = stage

\* ctx.ui.custom: the factory runs discoverFleet in repository g and builds
\* the dashboard; when discoverFleet throws the command ends.
OpenDashboard(o, g, fs) ==
    LET d == DiscoveredIn(o, g, fs)
    IN /\ files' = d.files
       /\ thrown' = [thrown EXCEPT ![o] = @ \/ d.threw]
       /\ IF d.threw
          THEN /\ dash' = None
               /\ flow' = None
          ELSE /\ dash' = Some(FleetDashboard(d.entries[1]))
               /\ flow' = Some(Position(o, "dashboard", "dashboard", None))

\* /fleet: showDashboard up to the open dashboard.
ShowDashboard(o) ==
    /\ flow = None
    /\ AtRest(o)
    /\ ~GitThrows(git)
    /\ OpenDashboard(o, git, files)
    /\ UNCHANGED <<proc, foreign, hb, handle, timers, pc, todo, cur, raw,
                   result, lastPub, vanished, denied, discVars, dropped,
                   action, removals>>

\* The keys given to the open dashboard; "c" (create) and "d" are left out.
FlowKeys == {"up", "down", "enter", "x", "q", "r", "z"}

\* The input handler of the open dashboard: "r" refreshes, every other key
\* goes to dashboard.handleInput; "close" and an action end the dashboard,
\* and a remove action starts handleRemove.
DashboardKey(o, data) ==
    /\ At(o, "dashboard")
    /\ IF data = "r"
       THEN LET d == DiscoveredIn(o, git, files)
            IN /\ files' = d.files
               /\ thrown' = [thrown EXCEPT ![o] = @ \/ d.threw]
               /\ dash' = IF d.threw THEN dash
                          ELSE Some(SetEntries(dash[1], d.entries[1]))
               /\ UNCHANGED <<flow, action>>
       ELSE LET h == HandleInput(dash[1], data)
            IN /\ UNCHANGED <<files, thrown>>
               /\ IF h.result = NullResult
                  THEN /\ dash' = Some(h.dash)
                       /\ UNCHANGED <<flow, action>>
                  ELSE /\ dash' = None
                       /\ action' = Some(h.result)
                       /\ flow' =
                             IF /\ h.result.type = "remove"
                                /\ ~Refused(h.result.entry[1])
                             THEN Some(Position(o, "confirm", "dashboard",
                                                h.result.entry))
                             ELSE None
    /\ UNCHANGED <<proc, foreign, hb, handle, timers, pc, todo, cur, raw,
                   result, lastPub, vanished, denied, discVars, dropped,
                   removals>>

\* handleRemove after removeWorktree has returned out: a success makes the
\* dashboard open again and ends /fleet remove; uncommitted changes on the
\* first try lead to the second confirmation; every other failure ends the
\* command.
AfterRemove(o, out, force) ==
    /\ git' = out.git
    /\ IF out.success /\ flow[1].via = "dashboard"
       THEN OpenDashboard(o, out.git, files)
       ELSE /\ dash' = None
            /\ flow' = IF ~out.success /\ out.uncommitted /\ ~force
                       THEN Some([flow[1] EXCEPT !.stage = "force"])
                       ELSE None
            /\ UNCHANGED <<files, thrown>>

\* The answer to "Remove <name>?": removeWorktree on yes.
Confirm(o, yes) ==
    /\ At(o, "confirm")
    /\ Len(removals) < MaxRemovals
    /\ IF ~yes
       THEN /\ flow' = None
            /\ UNCHANGED <<dash, files, thrown, git, removals>>
       ELSE \E dirty \in BOOLEAN :
               LET path == flow[1].entry[1].path
                   out == RemoveWorktree(git, path, FALSE, dirty)
               IN /\ removals' =
                        IF out.ran
                        THEN Append(removals,
                                    Removal(path, FALSE, flow[1].via))
                        ELSE removals
                  /\ AfterRemove(o, out, FALSE)
    /\ UNCHANGED <<proc, foreign, hb, handle, timers, pc, todo, cur, raw,
                   result, lastPub, vanished, denied, sessions, fleet,
                   paths, keys, dropped, action>>

\* The answer to "Force remove?": removeWorktree with force on yes.
Force(o, yes) ==
    /\ At(o, "force")
    /\ Len(removals) < MaxRemovals
    /\ IF ~yes
       THEN /\ flow' = None
            /\ UNCHANGED <<dash, files, thrown, git, removals>>
       ELSE \E dirty \in BOOLEAN :
               LET path == flow[1].entry[1].path
                   out == RemoveWorktree(git, path, TRUE, dirty)
               IN /\ removals' =
                        IF out.ran
                        THEN Append(removals,
                                    Removal(path, TRUE, flow[1].via))
                        ELSE removals
                  /\ AfterRemove(o, out, TRUE)
    /\ UNCHANGED <<proc, foreign, hb, handle, timers, pc, todo, cur, raw,
                   result, lastPub, vanished, denied, sessions, fleet,
                   paths, keys, dropped, action>>

\* The names given to /fleet remove.
CommandNames == {<<"w">>, <<"W">>, <<"r">>, <<"x">>}

\* /fleet remove <name>: removeFromCommand up to handleRemove's first
\* confirmation.
RemoveFromCommand(o, name) ==
    /\ flow = None
    /\ AtRest(o)
    /\ ~GitThrows(git)
    /\ LET d == DiscoveredIn(o, git, files)
           target == FindWorktree(d.entries[1], name)
       IN /\ files' = d.files
          /\ thrown' = [thrown EXCEPT ![o] = @ \/ d.threw]
          /\ flow' = IF d.threw \/ target = None \/ Refused(target[1])
                     THEN None
                     ELSE Some(Position(o, "confirm", "command", target))
    /\ UNCHANGED <<proc, foreign, hb, handle, timers, pc, todo, cur, raw,
                   result, lastPub, vanished, denied, discVars, dropped,
                   dash, action, removals>>

\* A call of removeWorktree with no command around it.
RemoveWorktreeCall(o, path, force) ==
    /\ flow = None
    /\ AtRest(o)
    /\ ~GitThrows(git)
    /\ Len(removals) < MaxRemovals
    /\ \E dirty \in BOOLEAN :
          LET out == RemoveWorktree(git, path, force, dirty)
          IN /\ git' = out.git
             /\ removals' =
                   IF out.ran
                   THEN Append(removals, Removal(path, force, "direct"))
                   ELSE removals
    /\ UNCHANGED <<files, proc, foreign, hb, handle, timers, pc, todo, cur,
                   raw, result, thrown, lastPub, vanished, denied, sessions,
                   fleet, paths, keys, dropped, dash, action, flow>>

\* ------------------------------------------------------------------ Next
Lifecycle(p) ==
    \/ SessionStart(p)
    \/ WriteDone(p)
    \/ SessionStartModel(p)
    \/ SessionShutdown(p)
    \/ AgentStart(p)
    \/ AgentEnd(p)
    \/ ToolExecutionStart(p)
    \/ ToolExecutionEnd(p)
    \/ ModelSelect(p)
    \/ TurnEnd(p)
    \/ \E m \in LifeMessages : MessageEnd(p, m)
    \/ Tick(p)

Scan(p) ==
    \/ ScanStart(p)
    \/ ScanRead(p)
    \/ ScanDecide(p)
    \/ ScanReturn(p)

\* The store under concurrency: two publishing processes that start a
\* session (again only after a shutdown), tick, shut down and crash, and two
\* scanning processes.
StoreEvents(p) ==
    \/ (~handle[p] /\ SessionStart(p))
    \/ WriteDone(p)
    \/ SessionStartModel(p)
    \/ SessionShutdown(p)
    \/ Tick(p)

Next ==
    \/ \E p \in Agents : StoreEvents(p)
    \/ \E p \in Scanners : Scan(p)
    \/ \E p \in Pids : Crash(p)

Spec == Init /\ [][Next]_vars

\* The whole heartbeat lifecycle of one process, with one scanning process.
LifeAgents == {1}
LifeScanners == {3}

NextLife ==
    \/ \E p \in LifeAgents : Lifecycle(p)
    \/ \E p \in LifeScanners : Scan(p)
    \/ \E p \in LifeAgents : Crash(p)

SpecLife == Init /\ [][NextLife]_vars

\* One process in its session and one scanning process, with the interval
\* timer firing and every started write finishing.
NextLive ==
    \/ \E p \in LifeAgents : StoreEvents(p)
    \/ \E p \in LifeScanners : Scan(p)

SpecLive ==
    /\ Init
    /\ [][NextLive]_vars
    /\ \A p \in LifeAgents : WF_vars(Tick(p)) /\ WF_vars(WriteDone(p))

\* The excerpts on their own: one process starts sessions and receives
\* messages of every form.
NextMsg ==
    \E p \in LifeAgents :
        \/ SessionStart(p)
        \/ WriteDone(p)
        \/ SessionStartModel(p)
        \/ \E m \in Messages : MessageEnd(p, m)

SpecMsg == Init /\ [][NextMsg]_vars

\* Discovery on its own: a dashboard is opened (and refreshed) on a store
\* that earlier sessions have left in any of these states.  The file of a
\* process is absent or a complete record; that of process 1 or 2 may also
\* be cut to length 0, that of process 1 may be the text null.  Process 3
\* is alive and opens the dashboard, process 2 may too.
StoreTexts(p) ==
    {Absent, Some(Stringify(InitRecord(p)))}
        \cup (IF p \in Agents THEN {Some(Empty)} ELSE {})
        \cup (IF p = 1 THEN {Some(NullText)} ELSE {})

\* The session directory of the main worktree is absent or holds one
\* session; the one the linked worktrees map to is in any state.
SessionStates ==
    {d \in [SessionDirs -> DirStates] :
        d[EncodeSessionPath(MainPath)]
            \in {NoDir, [state |-> "listed",
                         names |-> {<<"s1", ".jsonl">>,
                                    <<"s1.jsonl", ".bak">>}]}}

\* A live process whose record is in the store is inside a session.
InSession(p) ==
    proc[p] = "alive" /\ files[p] = Some(Stringify(InitRecord(p)))

InitDisc ==
    /\ files \in {fs \in [Pids -> UNION {StoreTexts(p) : p \in Pids}] :
                     \A p \in Pids : fs[p] \in StoreTexts(p)}
    /\ proc \in {pr \in [Pids -> {"alive", "dead"}] :
                    \A p \in Pids \ Agents : pr[p] = "alive"}
    /\ \E F \in SUBSET MayBeForeign : foreign = [p \in Pids |-> p \in F]
    /\ denied = [p \in Pids |-> FALSE]
    /\ hb = [p \in Pids |->
                IF InSession(p) THEN Some(InitRecord(p)) ELSE None]
    /\ handle = [p \in Pids |-> InSession(p)]
    /\ timers = [p \in Pids |-> IF InSession(p) THEN 1 ELSE 0]
    /\ lastPub = [p \in Pids |->
                     IF files[p] = Some(Stringify(InitRecord(p)))
                     THEN Some(InitRecord(p)) ELSE None]
    /\ pc = [p \in Pids |-> "idle"]
    /\ todo = [p \in Pids |-> {}]
    /\ cur = [p \in Pids |-> 0]
    /\ raw = [p \in Pids |-> ENOENT]
    /\ result = [p \in Pids |-> <<>>]
    /\ thrown = [p \in Pids |-> FALSE]
    /\ vanished = [p \in Pids |-> {}]
    /\ dropped = [p \in Pids |-> FALSE]
    /\ NoDashboard
    /\ git \in Repositories
    /\ sessions \in SessionStates
    /\ fleet = None
    /\ paths = <<>>
    /\ keys = <<>>

NextDisc == \E o \in Scanners : DiscoverFleet(o)

SpecDisc == InitDisc /\ [][NextDisc]_vars

\* encodeSessionPath on its own: it is applied to two absolute paths made of
\* a letter, the separator, the blank and the hyphen, with at most
\* MaxPathLen characters after the leading separator and no empty segment.
PathChars == {"a", "/", " ", "-"}

RECURSIVE Strings(_)
Strings(n) ==
    IF n = 0 THEN {<<>>}
    ELSE LET shorter == Strings(n - 1)
         IN shorter \cup {Append(s, c) :
                             s \in {t \in shorter : Len(t) = n - 1},
                             c \in PathChars}

IsNormal(p) ==
    \A i \in 2..Len(p) : p[i] = "/" => p[i - 1] # "/" /\ i < Len(p)

AbsolutePaths ==
    {p \in {<<"/">> \o s : s \in Strings(MaxPathLen)} : IsNormal(p)}

InitEnc ==
    /\ files = [p \in Pids |-> Absent]
    /\ proc = [p \in Pids |-> "alive"]
    /\ foreign = [p \in Pids |-> FALSE]
    /\ denied = [p \in Pids |-> FALSE]
    /\ Loaded
    /\ NoDashboard
    /\ git = None
    /\ sessions = None
    /\ fleet = None
    /\ paths \in AbsolutePaths \X AbsolutePaths
    /\ keys = <<>>

Encode ==
    /\ keys = <<>>
    /\ keys' = <<EncodeSessionPath(paths[1]), EncodeSessionPath(paths[2])>>
    /\ UNCHANGED <<files, proc, foreign, hb, handle, timers, pc, todo, cur,
                   raw, result, thrown, lastPub, vanished, denied, git,
                   sessions, fleet, paths, dropped, uiVars>>

NextEnc == Encode

SpecEnc == InitEnc /\ [][NextEnc]_vars

\* The dashboard on its own: it is built from an array of at most
\* MaxEntries entries and then receives keys and new arrays.  An entry is
\* reduced to the fields the dashboard's input handling reads.
DashEntries ==
    {[path |-> LinkedA, isMain |-> FALSE, isCurrent |-> FALSE],
     [path |-> LinkedA, isMain |-> FALSE, isCurrent |-> TRUE],
     [path |-> LinkedB, isMain |-> TRUE, isCurrent |-> FALSE],
     [path |-> LinkedB, isMain |-> TRUE, isCurrent |-> TRUE]}

RECURSIVE Lists(_)
Lists(n) ==
    IF n = 0 THEN {<<>>}
    ELSE LET shorter == Lists(n - 1)
         IN shorter \cup {Append(s, e) :
                             s \in {t \in shorter : Len(t) = n - 1},
                             e \in DashEntries}

EntryLists == Lists(MaxEntries)

InitDash ==
    /\ files = [p \in Pids |-> Absent]
    /\ proc = [p \in Pids |-> "alive"]
    /\ foreign = [p \in Pids |-> FALSE]
    /\ denied = [p \in Pids |-> FALSE]
    /\ Loaded
    /\ NoQuery
    /\ \E es \in EntryLists : dash = Some(FleetDashboard(es))
    /\ action = None
    /\ flow = None
    /\ removals = <<>>

NextDash ==
    \/ \E data \in Keys : HandleInputCall(data)
    \/ \E es \in EntryLists : SetEntriesCall(es)

SpecDash == InitDash /\ [][NextDash]_vars

\* The /fleet commands that remove a worktree and calls of removeWorktree,
\* by a process in the main worktree and by one in /r/w, in every repository
\* git answers for.
Observers == {1, 3}

Unused ==
    /\ files = [p \in Pids |-> Absent]
    /\ proc = [p \in Pids |-> "alive"]
    /\ foreign = [p \in Pids |-> FALSE]
    /\ denied = [p \in Pids |-> FALSE]
    /\ Loaded
    /\ NoDashboard
    /\ sessions = [d \in SessionDirs |-> NoDir]
    /\ fleet = None
    /\ paths = <<>>
    /\ keys = <<>>

InitRemove ==
    /\ Unused
    /\ git \in {g \in Repositories : g.ok}

Commands(o) ==
    \/ ShowDashboard(o)
    \/ \E data \in FlowKeys : DashboardKey(o, data)
    \/ \E yes \in BOOLEAN : Confirm(o, yes)
    \/ \E yes \in BOOLEAN : Force(o, yes)
    \/ \E name \in CommandNames : RemoveFromCommand(o, name)

NextRemove ==
    \/ \E o \in Observers : Commands(o)
    \/ \E o \in Observers, path \in WorktreePaths, force \in BOOLEAN :
          RemoveWorktreeCall(o, path, force)

SpecRemove == InitRemove /\ [][NextRemove]_vars

\* The same commands by the process in the main worktree of a repository
\* with the linked worktree /r/w, next to a process that starts and ends
\* sessions in /r/w.
RaceObservers == {1}
Workers == {2}

InitRace ==
    /\ Unused
    /\ git \in {g \in Repositories :
                   g.ok /\ ~g.bare /\ g.linked \in {<<LinkedA>>,
                                                    <<LinkedA, LinkedB>>}}

NextRace ==
    \/ \E o \in RaceObservers : Commands(o)
    \/ \E p \in Workers : StoreEvents(p)

SpecRace == InitRace /\ [][NextRace]_vars

TypeOK ==
    /\ \A p \in Pids : hb[p] = None \/ hb[p][1] \in Heartbeat
    /\ \A p \in Pids : timers[p] \in 0..MaxTimers

\* ---------------------------------------------------------------- claims
Writing(p) == pc[p] \in {"w", "init_w", "model_w"}

\* The text of name f is a complete record text.
Valid(fs, f) == fs[f] # Absent /\ WellFormed(fs[f][1])

\* The pids of the records of an array.
PidsOf(arr) == {arr[i].pid : i \in 1..Len(arr)}

Elems(arr) == {arr[i] : i \in 1..Len(arr)}

\* Process s completes the loop body for name f in this step.
Decides(s, f) == pc[s] = "decide" /\ cur[s] = f /\ pc'[s] \in {"scan", "ret"}

\* C1: a scanning process deletes the record file of another process only
\* when that process is dead.
C1_ReclaimOnlyDead ==
    [][\A s \in Scanners, f \in Agents :
          (s # f /\ Decides(s, f) /\ files[f] # Absent /\ files'[f] = Absent)
              => proc[f] = "dead"]_vars

\* C2: a publish that overwrites an existing complete record leaves, at its
\* first step and at every later one, either the previous text or the new
\* text under the name: never an empty or partial file.
C2_AtomicReplace ==
    [][\A p \in Agents :
          (Valid(files, p) /\ Running(p) /\ proc'[p] = "alive"
             /\ (Writing(p) \/ Writing(p)'))
              => files'[p] \in {files[p], Some(Stringify(hb'[p][1]))}]_vars

\* C3: the text a scan parses successfully is the text of the last completed
\* write of the owner of the name, and the record the scan then pushes is
\* the record of that text: a full Heartbeat of that key.
C3_NoTornRecord ==
    [][\A s \in Scanners :
          /\ (pc[s] = "scan" /\ pc'[s] = "decide" /\ Valid(raw', s))
                => /\ lastPub[cur'[s]] # None
                   /\ raw'[s] = Some(Stringify(lastPub[cur'[s]][1]))
          /\ (Len(result'[s]) > Len(result[s]))
                => LET r == result'[s][Len(result'[s])]
                   IN /\ DOMAIN r = {FieldOrder[i] : i \in 1..Len(FieldOrder)}
                      /\ r \in Heartbeat
                      /\ r.pid = cur[s]
                      /\ raw[s] = Some(Stringify(r))]_vars

\* A scan is reading a name while its owner is in the middle of a write, and
\* has already returned a record in the same scan.
C3_Witness ==
    \E s \in Scanners, f \in Agents :
        /\ s # f /\ Writing(f) /\ files[f] = Some(Empty)
        /\ pc[s] = "decide" /\ cur[s] = f /\ raw[s] = Some(Empty)
        /\ result[s] # <<>>

\* C4: when a running process completes a publish, a scan run right then by
\* any running process returns exactly the published record.
C4_ScanAfterPublish ==
    [][\A p \in Agents, o \in Scanners :
          (WriteDone(p) /\ proc[o] = "alive")
              => hb[p][1] \in Elems(SeqScan(o, files').result)]_vars

\* C5: a scan excludes the record of every dead process and removes its
\* file; a second scan returns the same array, changes nothing and does not
\* throw.
C5_ReclaimDead ==
    \A o \in Scanners :
        AtRest(o) =>
            LET first == SeqScan(o, files)
                second == SeqScan(o, first.files)
            IN /\ \A d \in Pids :
                     proc[d] = "dead" =>
                         /\ d \notin PidsOf(first.result)
                         /\ first.files[d] = Absent
               /\ ~first.thrown
               /\ second = first

\* C5 with best-effort removal: a scan excludes the record of every dead
\* process and removes its file, or leaves the file as it is when the
\* scanner may not write the directory; a second scan returns the same
\* array, changes nothing more and does not throw.
C5_ReclaimDeadBestEffort ==
    \A o \in Scanners :
        AtRest(o) =>
            LET first == SeqScan(o, files)
                second == SeqScan(o, first.files)
            IN /\ \A d \in Pids :
                     proc[d] = "dead" =>
                         /\ d \notin PidsOf(first.result)
                         /\ first.files[d] =
                                IF denied[o] THEN files[d] ELSE Absent
               /\ ~first.thrown
               /\ second = first

\* A dead process has left a complete record while a live record exists,
\* and two scanners are at rest: one may write the directory, one may not.
C5_Witness ==
    \E o \in Scanners, n \in Scanners, d \in Agents, e \in Agents :
        /\ AtRest(o) /\ ~denied[o] /\ AtRest(n) /\ denied[n]
        /\ proc[d] = "dead" /\ Valid(files, d)
        /\ e # d /\ Valid(files, e) /\ IsPidRunning(o, e)

\* C6: a complete record whose owner cannot be signalled for lack of
\* permission is returned by the scan and its file is kept.
C6_PermissionMeansAlive ==
    \A o \in Scanners, f \in Pids :
        (AtRest(o) /\ Valid(files, f) /\ ProbeError(o, f) = "EPERM")
            => LET scan == SeqScan(o, files)
               IN /\ f \in PidsOf(scan.result)
                  /\ scan.files[f] = files[f]

\* C7: a scan removes and excludes every file whose text is not a record,
\* and returns and keeps every complete record of a live process that is in
\* the store with it.
C7_CorruptIsolated ==
    \A o \in Scanners, c \in Pids :
        (AtRest(o) /\ files[c] # Absent /\ ~Valid(files, c))
            => LET scan == SeqScan(o, files)
               IN /\ scan.files[c] = Absent
                  /\ c \notin PidsOf(scan.result)
                  /\ \A g \in Pids \ {c} :
                        (Valid(files, g) /\ proc[g] = "alive")
                            => /\ Parse(files[g][1])[1] \in Elems(scan.result)
                               /\ scan.files[g] = files[g]

\* C8: after removeHeartbeat(pid) the file is absent and a scan returns no
\* record of pid; on an absent name it changes no file; it never throws.
C8_RetractThenScan ==
    [][\A p \in Agents :
          SessionShutdown(p)
              => /\ files'[p] = Absent
                 /\ ~thrown'[p]
                 /\ (files[p] = Absent => files' = files)
                 /\ \A o \in Scanners :
                       p \notin PidsOf(SeqScan(o, files').result)]_vars

\* Process p has shut down since its last session_start.
HasShutDown(p) ==
    /\ Running(p)
    /\ hb[p] # None
    /\ ~handle[p]
    /\ pc[p] \notin {"init_w", "started", "model_w"}

\* A process has just shut down while another record is in the store.
C8_Witness ==
    \E p \in Agents, q \in Agents, o \in Scanners :
        /\ HasShutDown(p) /\ pc[p] = "idle" /\ files[p] = Absent
        /\ q # p /\ Valid(files, q) /\ AtRest(o) /\ IsPidRunning(o, q)

\* C9: once a process has handled session_shutdown, its record stays absent
\* until the process starts a session again.
C9_ShutdownIsFinal ==
    \A p \in LifeAgents : HasShutDown(p) => files[p] = Absent

\* C10: no exception leaves a scan, and a name whose read threw is skipped:
\* the array is unchanged by it and the loop goes on.
C10_VanishedSkipped ==
    [][\A s \in Scanners :
          /\ ~thrown'[s]
          /\ (pc[s] = "decide" /\ raw[s] = ENOENT /\ proc'[s] = "alive"
                /\ pc'[s] # "decide")
                => /\ result'[s] = result[s]
                   /\ todo'[s] = todo[s] \ {cur[s]}
                   /\ pc'[s] \in {"scan", "ret"}]_vars

\* A scan returns a record although the read of another name threw.
C10_Witness ==
    \E s \in Scanners :
        pc[s] = "ret" /\ vanished[s] # {} /\ result[s] # <<>>

\* C11: a reclaim whose unlinkSync fails (the name is already gone, or the
\* scanner may not write the directory) throws nothing, adds nothing to the
\* array and goes on to the rest of the listing.
C11_ReclaimBestEffort ==
    [][\A s \in Scanners :
          /\ ~thrown'[s]
          /\ (pc[s] = "decide" /\ pc'[s] # "decide" /\ proc'[s] = "alive"
                /\ ScanBody(s, cur[s], raw[s]) = "reclaim"
                /\ UnlinkThrows(s, files, cur[s]))
                => /\ files' = files
                   /\ result'[s] = result[s]
                   /\ todo'[s] = todo[s] \ {cur[s]}
                   /\ pc'[s] \in {"scan", "ret"}]_vars

\* Two scans have both read the complete record of a dead process; one has
\* unlinked it and finished, the other is about to unlink the missing name.
C11_Witness ==
    \E s \in Scanners, t \in Scanners, d \in Agents :
        /\ s # t /\ proc[d] = "dead" /\ files[d] = Absent
        /\ pc[s] = "decide" /\ cur[s] = d /\ raw[s] # ENOENT
        /\ WellFormed(raw[s][1])
        /\ pc[t] = "ret" /\ ~thrown[t]

\* The last discoverFleet returned a list; the list.
Returned == fleet # None /\ ~fleet[1].threw
Entries == fleet[1].entries[1]
Snapshot == fleet[1].snapshot

\* C12: the list discoverFleet returns has one entry per worktree of the git
\* listing, in the order of the listing, and no two entries share a path.
C12_OneEntryPerWorktree ==
    Returned =>
        /\ Len(Entries) = Len(Listing(git))
        /\ \A i \in 1..Len(Entries) : Entries[i].path = Listing(git)[i]
        /\ \A i, j \in 1..Len(Entries) :
              i # j => Entries[i].path # Entries[j].path

\* A list of three entries was returned: a worktree on a branch first, one
\* with a detached HEAD in the middle.
C12_Witness ==
    /\ Returned
    /\ Len(Entries) = 3
    /\ Entries[2].branch = Detached
    /\ Entries[3].branch = <<"w">>

\* C13: exactly one entry of a returned list has isMain set, and it is the
\* entry of the main worktree, the first of the git listing.
C13_ExactlyOneMain ==
    Returned =>
        /\ Cardinality({i \in 1..Len(Entries) : Entries[i].isMain}) = 1
        /\ \A i \in 1..Len(Entries) :
              Entries[i].isMain <=> Entries[i].path = Listing(git)[1]

\* C14: the heartbeat of an entry is null exactly when the array
\* readAllHeartbeats returned holds no record with the entry's path as cwd;
\* otherwise it is a record of that array with that cwd, and its file is
\* still in the store.
C14_HeartbeatByPath ==
    Returned =>
        \A i \in 1..Len(Entries) :
            LET h == Entries[i].heartbeat
                same == {r \in Elems(Snapshot) : r.cwd = Entries[i].path}
            IN /\ h = None <=> same = {}
               /\ h # None => /\ h[1] \in same
                              /\ files[h[1].pid] = Some(Stringify(h[1]))

\* Two live processes share /r/w: the entry of /r/w carries the record of
\* one of them, the entry of /r-w carries none.
C14_Witness ==
    /\ Returned
    /\ Cardinality({r \in Elems(Snapshot) : r.cwd = LinkedA}) = 2
    /\ \E i, j \in 1..Len(Entries) :
          /\ Entries[i].path = LinkedA /\ Entries[i].heartbeat # None
          /\ Entries[j].path = LinkedB /\ Entries[j].heartbeat = None

\* Process o runs discoverFleet in this step.
Discovers(o) == DiscoverFleet(o)

\* C15: discoverFleet leaves the heartbeat store as it found it: the same
\* files with the same contents.
C15_NoSideEffects ==
    [][\A o \in Scanners : Discovers(o) => files' = files]_vars

\* C15 with reclamation: the only change discoverFleet makes to the store is
\* to remove files its scan reclaims: those whose text does not parse and
\* those whose owner the probe reports as not running.  It creates no file,
\* changes no content and keeps every other file.
C15_OnlyReclaims ==
    [][\A o \in Scanners :
          Discovers(o) =>
              \A f \in Pids :
                  \/ files'[f] = files[f]
                  \/ /\ files'[f] = Absent
                     /\ \/ Parse(files[f][1]) = ParseError
                        \/ ProbeError(o, f) # "none"]_vars

\* A dashboard was opened on a store that held the record of a dead process
\* and the record of a live one: the first is gone, the second is left.
C15_Witness ==
    /\ fleet # None
    /\ \E f \in Pids :
          proc[f] = "dead" /\ lastPub[f] # None /\ files[f] = Absent
    /\ \E f \in Pids :
          proc[f] = "alive" /\ files[f] # Absent /\ lastPub[f] = Some(Snapshot[1])

\* C16: when the git command fails, discoverFleet throws and returns no
\* list; when it returns, the git command has succeeded and the list has
\* an entry for every worktree, so that "no repository" is never taken for
\* "no worktrees".
C16_GitFailureThrows ==
    fleet # None =>
        /\ ~git.ok => fleet[1].threw /\ fleet[1].entries = None
        /\ fleet[1].entries # None => git.ok /\ Len(Entries) >= 1

\* discoverFleet ran where the git command fails.
C16_Witness == fleet # None /\ ~git.ok /\ \E o \in Scanners : thrown[o]

\* The names of a directory that carry the suffix .jsonl.
JsonlFiles(dir) == {f \in dir.names : f[2] = ".jsonl"}

\* C17: sessionCount is the number of names with the suffix .jsonl in the
\* session directory of the entry's path, hasSessionHistory says the count
\* is positive; both are 0 and false when the directory is absent or cannot
\* be listed, and neither case makes discoverFleet throw.
C17_SessionCount ==
    /\ Returned =>
          \A i \in 1..Len(Entries) :
              LET dir == sessions[EncodeSessionPath(Entries[i].path)]
                  e == Entries[i]
              IN /\ e.sessionCount = IF dir.state = "listed"
                                     THEN Cardinality(JsonlFiles(dir))
                                     ELSE 0
                 /\ e.hasSessionHistory <=> e.sessionCount > 0
    /\ (fleet # None /\ fleet[1].threw) =>
            ~git.ok \/ JsNull \in Elems(Snapshot)

\* One entry counts two sessions among three names, another has a session
\* directory that is absent.
C17_Witness ==
    /\ Returned
    /\ \E i, j \in 1..Len(Entries) :
          /\ Entries[i].sessionCount = 2
          /\ Cardinality(sessions[EncodeSessionPath(Entries[i].path)].names)
                = 3
          /\ sessions[EncodeSessionPath(Entries[j].path)].state = "absent"
          /\ ~Entries[j].hasSessionHistory

\* C18: encodeSessionPath gives different directory names to different
\* absolute paths.
C18_EncodingInjective ==
    (keys # <<>> /\ paths[1] # paths[2]) => keys[1] # keys[2]

\* C19: whatever the heartbeat files contain, discoverFleet returns when the
\* git command succeeds, with an entry for every worktree.
C19_ContentNeverFails ==
    (fleet # None /\ git.ok) =>
        /\ ~fleet[1].threw
        /\ Len(Entries) = Len(Listing(git))

\* C20: the turns of the records a process publishes never decrease: every
\* completed write carries at least the turns of the write before it.
C20_TurnsMonotonic ==
    [][\A p \in LifeAgents :
          (lastPub[p] # None /\ lastPub'[p] # None)
              => lastPub'[p][1].turns >= lastPub[p][1].turns]_vars

\* A record names a tool only while its status is tool_running.
ToolOnlyWhileRunning(r) == r.status # "tool_running" => r.currentTool = Null

\* C21: in the heartbeat a process holds, in the record of its last
\* completed write and in every complete record text of the store, status
\* other than tool_running comes with currentTool = null.
C21_ToolOnlyWhileRunning ==
    \A p \in LifeAgents :
        /\ hb[p] # None => ToolOnlyWhileRunning(hb[p][1])
        /\ lastPub[p] # None => ToolOnlyWhileRunning(lastPub[p][1])
        /\ Valid(files, p) => ToolOnlyWhileRunning(Parse(files[p][1])[1])

\* After a turn and a user message, a record that names a running tool has
\* been published, and the agent run has ended since.
C21_Witness ==
    \E p \in LifeAgents :
        /\ lastPub[p] # None /\ hb[p] # None
        /\ lastPub[p][1].status = "tool_running"
        /\ lastPub[p][1].currentTool # Null
        /\ lastPub[p][1].turns > 0
        /\ lastPub[p][1].lastUserMessage # None
        /\ hb[p][1].status = "idle"

\* Process p is between its session_start and its session_shutdown.
Between(p) == handle[p] \/ pc[p] \in {"init_w", "started", "model_w"}

\* A state-changing event or a tick is delivered to p in this step.
Event(p) ==
    \/ AgentStart(p)
    \/ AgentEnd(p)
    \/ ToolExecutionStart(p)
    \/ ToolExecutionEnd(p)
    \/ ModelSelect(p)
    \/ TurnEnd(p)
    \/ Tick(p)
    \/ \E m \in LifeMessages : MessageEnd(p, m) /\ hb' # hb

\* C22: between session_start and session_shutdown every state-changing
\* event and every tick starts a write of the heartbeat, and when the write
\* is done the file of the process holds the text of its in-memory
\* heartbeat, unless the name was unlinked after the write had opened it.
C22_RepublishOnEvent ==
    [][\A p \in LifeAgents :
          /\ (Between(p) /\ Event(p)) => Writing(p)'
          /\ (Between(p) /\ Writing(p) /\ ~Writing(p)' /\ proc'[p] = "alive")
                => /\ hb'[p] = hb[p]
                   /\ files'[p] = IF files[p] = Absent THEN Absent
                                  ELSE Some(Stringify(hb[p][1]))]_vars

\* Inside a session the file holds the heartbeat after a turn, a message
\* and the start of an agent run.
C22_Witness ==
    \E p \in LifeAgents :
        /\ handle[p] /\ pc[p] = "idle" /\ hb[p] # None
        /\ files[p] = Some(Stringify(hb[p][1]))
        /\ hb[p][1].turns > 0
        /\ hb[p][1].lastUserMessage # None
        /\ hb[p][1].status = "streaming"

\* The text of a message: its string content, or its text parts joined by a
\* blank.
RECURSIVE TextOfParts(_)
TextOfParts(ps) ==
    IF ps = <<>> THEN <<>>
    ELSE LET rest == TextOfParts(Tail(ps))
         IN IF Head(ps).type # "text" THEN rest
            ELSE IF \A i \in 2..Len(ps) : ps[i].type # "text"
            THEN Head(ps).text
            ELSE Head(ps).text \o <<" ">> \o rest

TextOf(m) ==
    IF m.content.kind = "string" THEN m.content.text
    ELSE IF m.content.kind = "array" THEN TextOfParts(m.content.parts)
    ELSE <<>>

\* The first n characters of a string.
Prefix(s, n) == [i \in 1..(IF Len(s) < n THEN Len(s) ELSE n) |-> s[i]]

ExcerptField(role) ==
    IF role = "user" THEN "lastUserMessage" ELSE "lastAssistantSnippet"

Capped(r) ==
    \A k \in {"lastUserMessage", "lastAssistantSnippet"} :
        r[k] = None \/ (Len(r[k][1]) \in 1..ExcerptCap)

\* C23: the excerpts of the heartbeat, of every completed write and of the
\* store are null or strings of 1 to 200 characters; a user or assistant
\* message with text sets the excerpt of its role to the first 200
\* characters of that text and leaves the other excerpt; a message without
\* text, a message of another role and a completed write leave both; a
\* session_start sets both to null.
C23_ExcerptsCappedMostRecent ==
    /\ [](\A p \in LifeAgents :
            /\ hb[p] # None => Capped(hb[p][1])
            /\ lastPub[p] # None => Capped(lastPub[p][1])
            /\ Valid(files, p) => Capped(Parse(files[p][1])[1]))
    /\ [][\A p \in LifeAgents :
            /\ \A m \in Messages :
                  (hb[p] # None /\ MessageEnd(p, m)) =>
                      IF m.role \in {"user", "assistant"} /\ TextOf(m) # <<>>
                      THEN \A k \in {"lastUserMessage",
                                     "lastAssistantSnippet"} :
                              hb'[p][1][k] =
                                  IF k = ExcerptField(m.role)
                                  THEN Some(Prefix(TextOf(m), ExcerptCap))
                                  ELSE hb[p][1][k]
                      ELSE hb'[p] = hb[p]
            /\ Writing(p) =>
                  /\ hb'[p] = hb[p]
                  /\ lastPub'[p] = hb[p]
            /\ SessionStart(p) =>
                  /\ hb'[p][1].lastUserMessage = None
                  /\ hb'[p][1].lastAssistantSnippet = None]_vars

\* A record was published whose user excerpt is the 200-character prefix of
\* a longer message and whose assistant excerpt joins two text parts.
C23_Witness ==
    \E p \in LifeAgents :
        /\ lastPub[p] # None
        /\ lastPub[p][1].lastUserMessage = Some(Repeat("b", ExcerptCap))
        /\ lastPub[p][1].lastAssistantSnippet = Some(<<"a", " ", "b">>)
        /\ files[p] = Some(Stringify(lastPub[p][1]))

\* C24: a process holds at most one periodic republish timer, and none
\* right after a session_shutdown.
C24_AtMostOneTimer ==
    /\ [](\A p \in LifeAgents : timers[p] <= 1)
    /\ [][\A p \in LifeAgents :
            SessionShutdown(p) => timers'[p] = 0]_vars

\* The session of p is open: the process runs and holds its interval handle.
SessionOpen(p) == Running(p) /\ handle[p]

\* C25: when the record of a process with an open session is missing from
\* the store, the record is eventually in the store again with the
\* process's current heartbeat, or the session has ended.
C25_EventuallyRepublished ==
    \A p \in LifeAgents :
        (SessionOpen(p) /\ files[p] = Absent)
            ~> (~SessionOpen(p) \/ files[p] = Some(Stringify(hb[p][1])))

\* A lifecycle event other than session_start is delivered to p.
Delivered(p) ==
    \/ AgentStart(p)
    \/ AgentEnd(p)
    \/ ToolExecutionStart(p)
    \/ ToolExecutionEnd(p)
    \/ ModelSelect(p)
    \/ TurnEnd(p)
    \/ \E m \in LifeMessages : MessageEnd(p, m)

\* C26: a running process without a heartbeat has published nothing and has
\* no record in the store, and a lifecycle event delivered to it leaves the
\* store, the heartbeat, the timers and the position of the process as they
\* are.
C26_NothingBeforeSessionStart ==
    /\ [](\A p \in LifeAgents :
            (Running(p) /\ hb[p] = None) =>
                /\ files[p] = Absent
                /\ lastPub[p] = None
                /\ timers[p] = 0
                /\ pc[p] = "idle")
    /\ [][\A p \in LifeAgents :
            (hb[p] = None /\ Delivered(p)) =>
                UNCHANGED <<files, hb, lastPub, timers, handle, pc,
                            thrown>>]_vars

\* An event was delivered to a running process that has no heartbeat, and
\* the store holds no record of it.
C26_Witness ==
    \E p \in LifeAgents :
        /\ Running(p)
        /\ dropped[p]
        /\ hb[p] = None
        /\ files[p] = Absent

\* C29: the selected index is at least 0 and at most max(0, length - 1);
\* handleInput returns open, switch or launch only with the selected entry
\* when that entry is not the current one, remove only with the selected
\* entry when it is neither the current nor the main one, and no action with
\* an entry when the array is empty.
C29_SelectionAndGuards ==
    /\ [](dash # None =>
            /\ dash[1].selected >= 0
            /\ dash[1].selected <= Max(0, Len(dash[1].entries) - 1))
    /\ [][(dash # None /\ action' # None /\ action'[1].entry # None) =>
            LET e == action'[1].entry[1]
            IN /\ Len(dash[1].entries) > 0
               /\ e = dash[1].entries[dash[1].selected + 1]
               /\ action'[1].type \in {"open", "switch", "launch", "remove"}
               /\ ~e.isCurrent
               /\ action'[1].type = "remove" => ~e.isMain]_vars

\* The selection stands on the last row of a full array and the last call
\* returned a remove action.
C29_Witness ==
    /\ dash # None
    /\ Len(dash[1].entries) = MaxEntries
    /\ dash[1].selected = MaxEntries - 1
    /\ action # None
    /\ action[1].type = "remove"

\* C30: after setEntries the selection is on an entry with the path of the
\* entry selected before, when the new array holds that path, and no row is
\* expanded.
C30_RefreshKeepsSelection ==
    [][(dash' # None /\ SetEntriesCall(dash'[1].entries)) =>
          LET es == dash'[1].entries
          IN /\ dash'[1].expanded = {}
             /\ (/\ Selected(dash[1]) # None
                 /\ \E i \in 1..Len(es) :
                       es[i].path = Selected(dash[1])[1].path)
                   => /\ Selected(dash'[1]) # None
                      /\ Selected(dash'[1])[1].path
                            = Selected(dash[1])[1].path]_vars

\* After a refresh the selection is on the second row, where the path
\* selected before now stands.
C30_Witness ==
    /\ dash # None
    /\ action = None
    /\ Len(dash[1].entries) = 2
    /\ dash[1].selected = 1
    /\ dash[1].entries[1].path = LinkedB
    /\ dash[1].entries[2].path = LinkedA
    /\ dash[1].expanded = {}

\* The primary worktree of the repository: the first of the git listing.
Primary == Listing(git)[1]

\* C27: git worktree remove is never run on the primary worktree, whether
\* the request comes from the dashboard, from /fleet remove or from a call
\* of removeWorktree.
C27_MainNeverPassedToGit ==
    \A i \in 1..Len(removals) : removals[i].path # Primary

\* C28: when handleRemove runs git worktree remove on a worktree, no live
\* process has a complete record with that working directory in the store.
C28_NoRemovalUnderLiveAgent ==
    \A i \in 1..Len(removals) :
        removals[i].via \in {"dashboard", "command"} => ~removals[i].live

====
